---- MODULE Spec2Model ----
(***************************************************************************)
(* State-machine model of vcenter_vm_manager.py (VCenterManager): run's    *)
(* main menu, the actions submenu, the seven batch actions and             *)
(* wait_for_task, against a vCenter inventory whose tasks succeed, fail or *)
(* stay running.                                                           *)
(*                                                                         *)
(* pyVmomi semantics used: every property read of a managed object         *)
(* (vm.name, vm.runtime.powerState, vm.snapshot, vm.config, task.info) is  *)
(* a remote call; on a destroyed VM it raises ManagedObjectNotFound, a     *)
(* vmodl.MethodFault.                                                      *)
(*                                                                         *)
(* The program prints its per-VM results; the model records each printed   *)
(* result line in `outcome` (state + error text) so that they can be       *)
(* stated.  Variables marked "history" record what happened and are never  *)
(* read by the modelled code.                                              *)
(***************************************************************************)
EXTENDS Integers, Sequences, FiniteSets, TLC

\* Number of virtual machines in the inventory.
NumVMs == 2

\* How many times wait_for_task is called again on a task it already
\* waited for, where a caller does that.
MaxWaits == 2

VMs == 1..NumVMs

\* Messages a failed remote task can carry in task.info.error.msg.
ErrMsgs == {"fault_a", "fault_b"}

\* Message of a fault raised by the remote call that starts a task.
SubmitMsg == "submit_fault"

\* Message of ManagedObjectNotFound, of a ValueError from int()/float(),
\* and of an exception raised by reading task.info over a broken transport.
NotFoundMsg == "not_found"
ValueErrorMsg == "value_error"
TransportMsg == "transport"

Actions == {"power_on", "power_off", "create_snapshot", "revert_to_snapshot",
            "change_vm_resources", "change_vm_network", "delete_vms"}

VARIABLES
    pc,            \* position of the program
    si,            \* self.si
    content,       \* self.content
    vcenter_host,  \* self.vcenter_host
    username,      \* self.username
    exists,        \* remote: VM is in the inventory
    power,         \* remote: vm.runtime.powerState
    snapshot,      \* remote: vm.snapshot is not None
    vms,           \* the list `vms` held by run / actions_submenu
    act,           \* the batch action being executed
    i,             \* index of the per-VM loop (1-based)
    arg,           \* change_vm_resources: whether int()/float() accept the input
    task,          \* the task object the program holds
    outcome,       \* history: result line printed for each VM in this batch
    attempted,     \* history: VMs whose loop iteration began in this batch
    subs,          \* history: tasks submitted for each VM in this batch
    waited,        \* history: <<VM, task kind>> for which wait_for_task was entered
    threw,         \* history: <<VM, task kind>> whose submitting call raised
    observed,      \* history: last task state read by wait_for_task per VM
    payload,       \* history: error message vCenter put on the VM's failed task
    noNic,         \* history: VMs whose device list held no ethernet card
    pollThrows,    \* history: reads of task.info that raised, per VM
    results,       \* history: how the earlier wait_for_task calls on `task` ended
    asked,         \* history: the answer to the batch method's confirmation
                   \*          prompt, kept until the method's loop takes a step
    ret,           \* history: how the last batch method ended
    shown          \* last screen printed by a menu

vars == <<pc, si, content, vcenter_host, username, exists, power, snapshot,
          vms, act, i, arg, task, outcome, attempted, subs, waited, threw,
          observed, payload, noNic, pollThrows, results, asked, ret, shown>>

session == <<si, content, vcenter_host, username>>
remote == <<exists, power, snapshot>>
history == <<outcome, attempted, subs, waited, threw, observed, payload, noNic,
             pollThrows, results, asked>>

----------------------------------------------------------------------------
\* Strings typed by the user, as sequences of characters.

Yes == <<"y", "e", "s">>
YesUpper == <<"Y", "E", "S">>
YesPadded == <<" ", "y", "e", "s">>
No == <<"n", "o">>
Delete == <<"D", "E", "L", "E", "T", "E">>
DeletePadded == <<" ", "D", "E", "L", "E", "T", "E", " ">>
DeleteLower == <<"d", "e", "l", "e", "t", "e">>
Empty == <<>>
Blank == <<" ">>
Name == <<"n">>

\* Answers tried at the prompt of revert_to_snapshot / of delete_vms.
RevertAnswers == {Yes, YesUpper, YesPadded, No}
DeleteAnswers == {Delete, DeletePadded, DeleteLower, Yes}

\* str.lower() on the characters used here.
LowerChar(c) ==
    CASE c = "Y" -> "y"
      [] c = "E" -> "e"
      [] c = "S" -> "s"
      [] c = "D" -> "d"
      [] c = "L" -> "l"
      [] c = "T" -> "t"
      [] OTHER -> c

Lower(s) == [k \in DOMAIN s |-> LowerChar(s[k])]

\* str.strip(): drop leading and trailing whitespace.
RECURSIVE LStrip(_)
LStrip(s) == IF s # <<>> /\ Head(s) = " " THEN LStrip(Tail(s)) ELSE s

RECURSIVE RStrip(_)
RStrip(s) ==
    IF s # <<>> /\ s[Len(s)] = " " THEN RStrip(SubSeq(s, 1, Len(s) - 1)) ELSE s

Strip(s) == RStrip(LStrip(s))

----------------------------------------------------------------------------
\* Values of the history variables.

NoOutcome == [state |-> "None", error |-> "none"]
Succeeded == [state |-> "Succeeded", error |-> "none"]
NoOp == [state |-> "NoOp", error |-> "none"]
Failed(e) == [state |-> "Failed", error |-> e]
PreconditionFailed == Failed("precondition")

NoTask == [state |-> "none", kind |-> "none", vm |-> 0, msg |-> "none"]

\* No confirmation was asked for / what the user typed when method a asked.
NoQuestion == [a |-> "none", answer |-> <<>>]
Question(a, typed) == [a |-> a, answer |-> typed]

FreshHistory ==
    /\ outcome' = [v \in VMs |-> NoOutcome]
    /\ attempted' = {}
    /\ subs' = [v \in VMs |-> 0]
    /\ waited' = {}
    /\ threw' = {}
    /\ observed' = [v \in VMs |-> "none"]
    /\ payload' = [v \in VMs |-> "none"]
    /\ noNic' = {}
    /\ pollThrows' = [v \in VMs |-> 0]
    /\ results' = <<>>

\* The sorted list of the VMs of S (a container view lists each VM once).
RECURSIVE SeqOf(_)
SeqOf(S) ==
    IF S = {} THEN <<>>
    ELSE LET m == CHOOSE x \in S : \A y \in S : x <= y
         IN <<m>> \o SeqOf(S \ {m})

TypeOK ==
    /\ pc \in {"load_config", "connect", "main_menu", "actions_menu", "loop",
               "wait", "spin", "check", "exited", "crashed"}
    /\ exists \in [VMs -> BOOLEAN]
    /\ power \in [VMs -> {"poweredOn", "poweredOff"}]
    /\ snapshot \in [VMs -> BOOLEAN]
    /\ act \in Actions \cup {"none"}
    /\ i \in 0..(NumVMs + 1)
    /\ task.state \in {"none", "running", "success", "error"}
    /\ Len(results) <= MaxWaits
    /\ ret \in {"none", "declined", "returned", "raised", "raised_early",
               "interrupted"}

\* VCenterManager.__init__, and an inventory of existing VMs.
Init ==
    /\ pc = "load_config"
    /\ si = "None"
    /\ content = "None"
    /\ vcenter_host = "None"
    /\ username = "None"
    /\ exists = [v \in VMs |-> TRUE]
    /\ power \in [VMs -> {"poweredOn", "poweredOff"}]
    /\ snapshot \in [VMs -> BOOLEAN]
    /\ vms = <<>>
    /\ act = "none"
    /\ i = 0
    /\ arg = "ok"
    /\ task = NoTask
    /\ outcome = [v \in VMs |-> NoOutcome]
    /\ attempted = {}
    /\ subs = [v \in VMs |-> 0]
    /\ waited = {}
    /\ threw = {}
    /\ observed = [v \in VMs |-> "none"]
    /\ payload = [v \in VMs |-> "none"]
    /\ noNic = {}
    /\ pollThrows = [v \in VMs |-> 0]
    /\ results = <<>>
    /\ asked = NoQuestion
    /\ ret = "none"
    /\ shown = "none"

----------------------------------------------------------------------------
\* run: load_config, connect and the main menu.

\* load_config: the file is there (host and user are set) or
\* FileNotFoundError (run returns).
LoadConfig ==
    /\ pc = "load_config"
    /\ \E found \in BOOLEAN :
          IF found
          THEN /\ vcenter_host' = "host"
               /\ username' = "user"
               /\ pc' = "connect"
          ELSE /\ UNCHANGED <<vcenter_host, username>>
               /\ pc' = "exited"
    /\ UNCHANGED <<si, content, remote, vms, act, i, arg, task, history, ret, shown>>

\* connect as it would be did run not look at what it returns.
ConnectUnchecked ==
    /\ pc = "connect"
    /\ \E r \in {"refused", "no_content", "ok"} :
          /\ si' = IF r = "refused" THEN si ELSE "si"
          /\ content' = IF r = "ok" THEN "content" ELSE content
          /\ pc' = "main_menu"
          /\ shown' = "session_info"
    /\ UNCHANGED <<vcenter_host, username, remote, vms, act, i, arg, task,
                   history, ret>>

\* connect: SmartConnect and RetrieveContent in one try; any exception makes
\* connect return False and run return.  On success run prints the session.
Connect ==
    /\ pc = "connect"
    /\ \E r \in {"refused", "no_content", "ok"} :
          /\ si' = IF r = "refused" THEN si ELSE "si"
          /\ content' = IF r = "ok" THEN "content" ELSE content
          /\ pc' = IF r = "ok" THEN "main_menu" ELSE "exited"
          /\ shown' = IF r = "ok" THEN "session_info" ELSE shown
    /\ UNCHANGED <<vcenter_host, username, remote, vms, act, i, arg, task,
                   history, ret>>

\* search_vms over get_all_vms: the VMs of the inventory whose name matches.
search_vms(matching) == SeqOf({v \in matching : exists[v]})

\* display_session_info as it would be did it keep the user name the session
\* reports in self.username.
MainShowSessionStoring ==
    /\ pc = "main_menu"
    /\ shown' = "session_info"
    /\ ret' = "none"
    /\ username' = "session_user"
    /\ FreshHistory
    /\ asked' = NoQuestion
    /\ UNCHANGED <<pc, si, content, vcenter_host, remote, vms, act, i, arg, task>>

\* Main menu, choice '1': display_session_info.
MainShowSession ==
    /\ pc = "main_menu"
    /\ shown' = "session_info"
    /\ ret' = "none"
    /\ FreshHistory
    /\ asked' = NoQuestion
    /\ UNCHANGED <<pc, session, remote, vms, act, i, arg, task>>

\* Main menu, choice '2': list all VMs.
MainListAll ==
    /\ pc = "main_menu"
    /\ vms' = search_vms(VMs)
    /\ shown' = "vm_table"
    /\ ret' = "none"
    /\ FreshHistory
    /\ asked' = NoQuestion
    /\ UNCHANGED <<pc, session, remote, act, i, arg, task>>

\* Main menu, choice '3': search, display, and the actions submenu when the
\* list is not empty.
MainSearch ==
    /\ pc = "main_menu"
    /\ \E matching \in SUBSET VMs :
          /\ vms' = search_vms(matching)
          /\ pc' = IF vms' # <<>> THEN "actions_menu" ELSE "main_menu"
    /\ shown' = "vm_table"
    /\ ret' = "none"
    /\ FreshHistory
    /\ asked' = NoQuestion
    /\ UNCHANGED <<session, remote, act, i, arg, task>>

\* Main menu, choice '4'.
MainExit ==
    /\ pc = "main_menu"
    /\ pc' = "exited"
    /\ shown' = "disconnecting"
    /\ UNCHANGED <<session, remote, vms, act, i, arg, task, history, ret>>

\* Main menu, any other choice.
MainInvalid ==
    /\ pc = "main_menu"
    /\ shown' = "invalid"
    /\ ret' = "none"
    /\ FreshHistory
    /\ asked' = NoQuestion
    /\ UNCHANGED <<pc, session, remote, vms, act, i, arg, task>>

----------------------------------------------------------------------------
\* What one step of a per-VM loop body leads to: a printed result line, an
\* exception leaving the batch method, or a submitted task to wait for.

Out(o) == [t |-> "outcome", o |-> o, kind |-> "none", threw |-> "none"]
Raised == [t |-> "escape", o |-> NoOutcome, kind |-> "none", threw |-> "none"]
Submitted(kind) == [t |-> "submit", o |-> NoOutcome, kind |-> kind, threw |-> "none"]

\* The handler as it would be did its message not name the VM.
HandlerNotNaming(v, e) == Out(Failed(e))

\* `except Exception as e: print(f"  Error ... {vm.name}: {e}")`: the handler
\* reads vm.name; on a destroyed VM that read raises inside the handler and
\* the exception leaves the method.
Handler(v, e) == IF exists[v] THEN Out(Failed(e)) ELSE Raised

\* AlreadyDone as it would be had power_on_vms no power-state check.
AlreadyDoneOnlyOff(a, v) == a = "power_off" /\ power[v] = "poweredOff"

\* power_on_vms / power_off_vms: the VM already is in the wanted power state.
AlreadyDone(a, v) ==
    \/ a = "power_on" /\ power[v] = "poweredOn"
    \/ a = "power_off" /\ power[v] = "poweredOff"

\* PreconditionFails as it would be had change_vm_resources no power-state
\* check.
PreconditionFailsIgnoringPower(a, v, hasNic) ==
    \/ a = "revert_to_snapshot" /\ ~snapshot[v]
    \/ a = "change_vm_network" /\ ~hasNic

\* The per-VM checks that end the iteration with `continue`.
PreconditionFails(a, v, hasNic) ==
    \/ a = "revert_to_snapshot" /\ ~snapshot[v]
    \/ a = "change_vm_resources" /\ power[v] = "poweredOn"
    \/ a = "change_vm_network" /\ ~hasNic

\* The remote call an iteration makes first.
FirstTask(a, v) ==
    CASE a = "power_on" -> "power_on"
      [] a = "power_off" -> "power_off"
      [] a = "create_snapshot" -> "snapshot"
      [] a = "revert_to_snapshot" -> "revert"
      [] a = "change_vm_resources" -> "reconfig"
      [] a = "change_vm_network" -> "reconfig"
      [] a = "delete_vms" ->
            IF power[v] = "poweredOn" THEN "power_off" ELSE "destroy"

\* task = vm.X_Task(...) inside the try: the call raises (fault) or returns
\* a task, and wait_for_task(task) follows.
Submit(v, kind, fault) ==
    IF fault THEN [Handler(v, SubmitMsg) EXCEPT !.threw = kind]
    ELSE Submitted(kind)

\* One loop iteration from its first statement up to the submission.
Body(a, v, hasNic, fault) ==
    IF ~exists[v] THEN Handler(v, NotFoundMsg)
    ELSE IF AlreadyDone(a, v) THEN Out(NoOp)
    ELSE IF PreconditionFails(a, v, hasNic) THEN Out(PreconditionFailed)
    ELSE IF a = "change_vm_resources" /\ arg = "bad"
         THEN Handler(v, ValueErrorMsg)
    ELSE Submit(v, FirstTask(a, v), fault)

\* The print that follows a wait that returned: it reads vm.name inside the
\* try.
SuccessPrint(v) == IF exists[v] THEN Out(Succeeded) ELSE Handler(v, NotFoundMsg)

\* TaskDone with the loop condition inverted (`in` for `not in`).
TaskDoneInverted(s) == s \notin {"success", "error"}

\* `while task.info.state not in ['success', 'error']`
TaskDone(s) == s \in {"success", "error"}

\* wait_for_task as it would be without its final check.
TaskFailedNever(s) == FALSE

\* `if task.info.state == 'error'`
TaskFailed(s) == s = "error"

\* NextIndex of a loop that does not advance.
NextIndexStuck(k) == k

\* `for vm in vms`: the iteration after the k-th.
NextIndex(k) == k + 1

\* run's `except vmodl.MethodFault` as it would be did it end the main loop.
AfterMethodFaultBreak == "exited"

\* run's `except vmodl.MethodFault`: a message, and the `while True` loop goes
\* on with the main menu.
AfterMethodFault == "main_menu"

\* The program's move after a loop-body step with result r for VM v: the
\* next iteration, the exception reaching run's `except vmodl.MethodFault`
\* (the main menu again), or wait_for_task on the new task.
Apply(v, r) ==
    /\ threw' = IF r.threw = "none" THEN threw ELSE threw \cup {<<v, r.threw>>}
    /\ results' = <<>>
    /\ asked' = NoQuestion
    /\ CASE r.t = "outcome" ->
              /\ outcome' = [outcome EXCEPT ![v] = r.o]
              /\ i' = NextIndex(i)
              /\ pc' = "loop"
              /\ task' = NoTask
              /\ UNCHANGED <<act, ret, subs, waited>>
         [] r.t = "escape" ->
              /\ pc' = AfterMethodFault
              /\ ret' = "raised"
              /\ act' = "none"
              /\ i' = 0
              /\ task' = NoTask
              /\ UNCHANGED <<outcome, subs, waited>>
         [] r.t = "submit" ->
              /\ task' = [state |-> "running", kind |-> r.kind, vm |-> v,
                          msg |-> "none"]
              /\ subs' = [subs EXCEPT ![v] = @ + 1]
              /\ waited' = waited \cup {<<v, r.kind>>}
              /\ pc' = "wait"
              /\ UNCHANGED <<outcome, i, act, ret>>

\* `for vm in vms: try: ...` up to the submission of the first task.
Iterate ==
    /\ pc = "loop"
    /\ i <= Len(vms)
    /\ LET v == vms[i]
       IN /\ \E hasNic \in BOOLEAN, fault \in BOOLEAN :
                /\ Apply(v, Body(act, v, hasNic, fault))
                /\ noNic' = IF act = "change_vm_network" /\ exists[v] /\ ~hasNic
                            THEN noNic \cup {v} ELSE noNic
          /\ attempted' = attempted \cup {v}
    /\ UNCHANGED <<session, remote, vms, arg, observed, payload, pollThrows,
                   shown>>

\* The loop is exhausted: the batch method returns to actions_submenu.
LoopEnd ==
    /\ pc = "loop"
    /\ i > Len(vms)
    /\ pc' = "actions_menu"
    /\ act' = "none"
    /\ i' = 0
    /\ ret' = "returned"
    /\ UNCHANGED <<session, remote, vms, arg, task, history, shown>>

\* wait_for_task, one evaluation of the while condition.
Poll ==
    /\ pc = "wait"
    /\ observed' = [observed EXCEPT ![vms[i]] = task.state]
    /\ pc' = IF TaskDone(task.state) THEN "check" ELSE "spin"
    /\ UNCHANGED <<session, remote, vms, act, i, arg, task, outcome, attempted,
                   subs, waited, threw, payload, noNic, pollThrows, results, asked,
                   ret, shown>>

\* wait_for_task, the loop's body `pass`.
Spin ==
    /\ pc = "spin"
    /\ pc' = "wait"
    /\ UNCHANGED <<session, remote, vms, act, i, arg, task, history, ret, shown>>

\* wait_for_task after its loop: the second read of the state; then either
\* the raise, or the rest of the try block (delete_vms: Destroy_Task after
\* the power-off; otherwise the success print).
Check ==
    /\ pc = "check"
    /\ LET v == vms[i]
       IN /\ observed' = [observed EXCEPT ![v] = task.state]
          /\ IF TaskFailed(task.state)
             THEN Apply(v, Handler(v, task.msg))
             ELSE IF act = "delete_vms" /\ task.kind = "power_off"
                  THEN \E fault \in BOOLEAN : Apply(v, Submit(v, "destroy", fault))
                  ELSE Apply(v, SuccessPrint(v))
    /\ UNCHANGED <<session, remote, vms, arg, attempted, payload, noNic,
                   pollThrows, shown>>

----------------------------------------------------------------------------
\* vCenter: the task the program waits for completes or fails.

TaskSucceed ==
    /\ task.state = "running"
    /\ task' = [task EXCEPT !.state = "success"]
    /\ LET v == task.vm
       IN CASE task.kind = "power_on" ->
                  /\ power' = [power EXCEPT ![v] = "poweredOn"]
                  /\ UNCHANGED <<exists, snapshot>>
            [] task.kind = "power_off" ->
                  /\ power' = [power EXCEPT ![v] = "poweredOff"]
                  /\ UNCHANGED <<exists, snapshot>>
            [] task.kind = "snapshot" ->
                  /\ snapshot' = [snapshot EXCEPT ![v] = TRUE]
                  /\ UNCHANGED <<exists, power>>
            [] task.kind = "revert" ->
                  /\ \E p \in {"poweredOn", "poweredOff"} :
                        power' = [power EXCEPT ![v] = p]
                  /\ UNCHANGED <<exists, snapshot>>
            [] task.kind = "reconfig" ->
                  UNCHANGED <<exists, power, snapshot>>
            [] task.kind = "destroy" ->
                  /\ exists' = [exists EXCEPT ![v] = FALSE]
                  /\ power' = [power EXCEPT ![v] = "poweredOff"]
                  /\ snapshot' = [snapshot EXCEPT ![v] = FALSE]
    /\ UNCHANGED <<pc, session, vms, act, i, arg, history, ret, shown>>

TaskFail ==
    /\ task.state = "running"
    /\ \E m \in ErrMsgs :
          /\ task' = [task EXCEPT !.state = "error", !.msg = m]
          /\ payload' = [payload EXCEPT ![task.vm] = m]
    /\ UNCHANGED <<pc, session, remote, vms, act, i, arg, outcome, attempted,
                   subs, waited, threw, observed, noNic, pollThrows, results, asked,
                   ret, shown>>

----------------------------------------------------------------------------
\* actions_submenu and the part of each batch method before its loop.

\* The method returns before its loop (empty list, blank input, no
\* confirmation, network not found).
ReturnEarly ==
    /\ pc' = "actions_menu"
    /\ act' = "none"
    /\ i' = 0
    /\ ret' = "declined"
    /\ UNCHANGED arg

\* The method reaches its per-VM loop.
Begin(a, argv) ==
    /\ pc' = "loop"
    /\ act' = a
    /\ i' = 1
    /\ arg' = argv
    /\ ret' = "none"

\* `if not vms: return`, then the method's own condition for going on.
Start(a, proceed, argv, q) ==
    /\ pc = "actions_menu"
    /\ IF vms = <<>> \/ ~proceed THEN ReturnEarly ELSE Begin(a, argv)
    /\ FreshHistory
    /\ asked' = q
    /\ UNCHANGED <<session, remote, vms, task, shown>>

\* `if confirm.lower() != 'yes'` is the cancellation of revert_to_snapshot.
RevertConfirmed(answer) == Lower(answer) = Yes

\* delete_vms as it would be did it compare the answer ignoring case.
DeleteConfirmedAnyCase(answer) == Lower(Strip(answer)) = DeleteLower

\* `confirm = input(...).strip()`, `if confirm != 'DELETE'` cancels delete_vms.
DeleteConfirmed(answer) == Strip(answer) = Delete

\* int(new_cpu) / float(new_memory) accept the text.
IsNumber(text) == text = <<"2">>

ChoosePowerOn == Start("power_on", TRUE, "ok", NoQuestion)

ChoosePowerOff == Start("power_off", TRUE, "ok", NoQuestion)

ChooseSnapshot ==
    \E snap_name \in {Empty, Blank, Name} :
        Start("create_snapshot", Strip(snap_name) # Empty, "ok", NoQuestion)

ChooseRevert ==
    \E confirm \in RevertAnswers :
        Start("revert_to_snapshot", RevertConfirmed(confirm), "ok",
              Question("revert_to_snapshot", confirm))

ChooseResources ==
    \E new_cpu \in {Empty, Blank, <<"2">>, <<"x">>},
       new_memory \in {Empty, <<"2">>, <<"x">>} :
        LET cpu == Strip(new_cpu)
            mem == Strip(new_memory)
            bad == \/ cpu # Empty /\ ~IsNumber(cpu)
                   \/ mem # Empty /\ ~IsNumber(mem)
        IN Start("change_vm_resources", cpu # Empty \/ mem # Empty,
                 IF bad THEN "bad" ELSE "ok", NoQuestion)

ChooseNetwork ==
    \E network_name \in {Empty, Blank, Name}, found \in BOOLEAN :
        Start("change_vm_network", Strip(network_name) # Empty /\ found, "ok",
              NoQuestion)

\* delete_vms prints vm.name of every VM before asking: outside any try.
ChooseDelete ==
    \E confirm \in DeleteAnswers :
        IF \A k \in 1..Len(vms) : exists[vms[k]]
        THEN Start("delete_vms", DeleteConfirmed(confirm), "ok",
                   Question("delete_vms", confirm))
        ELSE /\ pc = "actions_menu"
             /\ pc' = "main_menu"
             /\ ret' = "raised_early"
             /\ FreshHistory
             /\ asked' = NoQuestion
             /\ UNCHANGED <<session, remote, vms, act, i, arg, task, shown>>

\* Choice '8'.
ChooseBack ==
    /\ pc = "actions_menu"
    /\ pc' = "main_menu"
    /\ UNCHANGED <<session, remote, vms, act, i, arg, task, history, ret, shown>>

\* Any other choice: a message, and the menu again.
ChooseInvalid ==
    /\ pc = "actions_menu"
    /\ UNCHANGED vars

----------------------------------------------------------------------------

ProgramStep ==
    \/ LoadConfig
    \/ Connect
    \/ MainShowSession
    \/ MainListAll
    \/ MainSearch
    \/ MainExit
    \/ MainInvalid
    \/ ChoosePowerOn
    \/ ChoosePowerOff
    \/ ChooseSnapshot
    \/ ChooseRevert
    \/ ChooseResources
    \/ ChooseNetwork
    \/ ChooseDelete
    \/ ChooseBack
    \/ ChooseInvalid
    \/ Iterate
    \/ LoopEnd
    \/ Poll
    \/ Spin
    \/ Check

ServerStep ==
    \/ TaskSucceed
    \/ TaskFail

Next == ProgramStep \/ ServerStep

Spec == Init /\ [][Next]_vars

\* The interpreter keeps executing a batch method once it runs: its loop and
\* wait_for_task take their steps.  Menus wait for the user, vCenter owes
\* nothing.
Running == Iterate \/ LoopEnd \/ Poll \/ Spin \/ Check

FairSpec == Spec /\ WF_vars(Running)

\* The runs in which, besides, every task vCenter was given ends in
\* 'success' or 'error'.
TasksEndSpec == Spec /\ WF_vars(Running) /\ WF_vars(ServerStep)

\* Reading task.info over a broken transport raises inside wait_for_task;
\* the exception reaches the per-VM handler.  The program drops the task; a
\* task dropped while running is not followed further (vCenter may have
\* completed it before the read failed).
PollFault ==
    /\ pc \in {"wait", "check"}
    /\ LET v == vms[i]
       IN /\ pollThrows' = [pollThrows EXCEPT ![v] = @ + 1]
          /\ Apply(v, Handler(v, TransportMsg))
    /\ UNCHANGED <<session, remote, vms, arg, attempted, observed, payload,
                   noNic, shown>>

FlakyNext == Next \/ PollFault

FlakySpec == Init /\ [][FlakyNext]_vars

\* Ctrl-C while wait_for_task polls: KeyboardInterrupt is not an Exception,
\* so the per-VM `except Exception` lets it pass; run's
\* `except KeyboardInterrupt` prints "Interrupted by user" and breaks out of
\* the main loop.  Nothing is printed for the VM, nothing is sent to vCenter,
\* the rest of the list is not visited.
Interrupt ==
    /\ pc \in {"wait", "spin", "check"}
    /\ pc' = "exited"
    /\ ret' = "interrupted"
    /\ UNCHANGED <<session, remote, vms, act, i, arg, task, history, shown>>

InterruptNext == Next \/ Interrupt

InterruptSpec == Init /\ [][InterruptNext]_vars

\* How a call of wait_for_task ends once its loop is over: `raise
\* Exception(task.info.error.msg)` or a plain return.
WaitResultIgnoringError(t) == <<"returned">>

WaitResult(t) ==
    IF TaskFailed(t.state) THEN <<"raised", t.msg>> ELSE <<"returned">>

\* A caller that calls wait_for_task(task) once more when the call returns or
\* raises: the call ends with its result and the next call starts at the
\* while condition, on the same task object.
WaitAgain ==
    /\ pc = "check"
    /\ Len(results) < MaxWaits
    /\ observed' = [observed EXCEPT ![vms[i]] = task.state]
    /\ results' = Append(results, WaitResult(task))
    /\ pc' = "wait"
    /\ UNCHANGED <<session, remote, vms, act, i, arg, task, outcome, attempted,
                   subs, waited, threw, payload, noNic, pollThrows, asked, ret,
                   shown>>

RewaitNext == Next \/ WaitAgain

RewaitSpec == Init /\ [][RewaitNext]_vars

\* A call outside every try block raises a vmodl.MethodFault: the session
\* lookup of display_session_info, get_all_vms, a property read of
\* display_vms (after `vms` was assigned), or, in the actions submenu,
\* get_network of change_vm_network before its loop.  run catches it.
MethodFaultAtMenu ==
    /\ pc \in {"main_menu", "actions_menu"}
    /\ pc' = AfterMethodFault
    /\ shown' = "vsphere_error"
    /\ ret' = IF pc = "actions_menu" THEN "raised_early" ELSE "none"
    /\ \E matching \in SUBSET VMs :
          vms' = IF pc = "main_menu" /\ matching # {}
                 THEN search_vms(matching) ELSE vms
    /\ FreshHistory
    /\ asked' = NoQuestion
    /\ UNCHANGED <<session, remote, act, i, arg, task>>

\* Ctrl-C at an input() prompt of a menu or of a batch method: run's
\* `except KeyboardInterrupt` breaks out of the main loop.
InterruptAtPrompt ==
    /\ pc \in {"main_menu", "actions_menu"}
    /\ pc' = "exited"
    /\ ret' = "interrupted"
    /\ UNCHANGED <<session, remote, vms, act, i, arg, task, history, shown>>

\* An exception that is no MethodFault leaves run (re.error from
\* re.compile of the search term, EOFError from input()): main's
\* `except Exception` prints it and returns -1.
Crash ==
    /\ pc \in {"main_menu", "actions_menu"}
    /\ pc' = "crashed"
    /\ shown' = "error"
    /\ UNCHANGED <<session, remote, vms, act, i, arg, task, history, ret>>

RunNext == Next \/ Interrupt \/ MethodFaultAtMenu \/ InterruptAtPrompt \/ Crash

RunSpec == Init /\ [][RunNext]_vars

----------------------------------------------------------------------------
\* Vocabulary of the properties.

\* A batch method is executing its per-VM loop.
InBatch == pc \in {"loop", "wait", "spin", "check"}

\* The program is inside wait_for_task.
InWait == pc \in {"wait", "spin", "check"}

\* The batch method whose loop started is over: it returned, or an exception
\* left it.
BatchOver == ret \in {"returned", "raised"}

\* The VMs of the list the batch was called with.
Listed == {vms[k] : k \in 1..Len(vms)}

\* The iteration of VM v is over in the current batch.
IterationOver(v) ==
    /\ v \in attempted
    /\ ~(InWait /\ vms[i] = v)

----------------------------------------------------------------------------
\* C1: once the per-VM loop of a batch action has started, one VM's failure
\* never aborts the rest: when the batch method is over, every VM of the
\* list has been attempted.
C1_FullBatchIsolation ==
    BatchOver => \A v \in Listed : v \in attempted

\* C2: every wait for a submitted operation is bounded: wait_for_task, once
\* entered, always returns or raises, also when the task never becomes
\* 'success' or 'error'.
C2_WaitIsBounded == InWait ~> ~InWait

\* C3: a batch action over N VMs produces exactly N outcomes, one for each
\* VM of the list, however many of them fail.
C3_OneOutcomePerVM ==
    BatchOver =>
        /\ \A v \in Listed : outcome[v] # NoOutcome
        /\ \A v \in VMs \ Listed : outcome[v] = NoOutcome

\* C4: no per-VM error ever raises out of a batch action method to its
\* caller.
C4_NothingRaisedToCaller == ret # "raised"

\* C5: when the call that starts the action for a VM raises, that VM gets a
\* Failed outcome carrying the captured error, no wait is made for the call
\* that raised, and when the batch is over every other VM whose tasks all
\* succeeded has a Succeeded outcome.
C5_SubmissionFailureIsolated ==
    /\ \A p \in threw :
          /\ outcome[p[1]] = Failed(SubmitMsg)
          /\ p \notin waited
    /\ (BatchOver /\ threw # {}) =>
          \A w \in Listed :
              (observed[w] = "success" /\ \A p \in threw : p[1] # w)
                  => outcome[w] = Succeeded

\* The precondition of the running batch action is violated for VM v: no
\* snapshot to revert to, powered on for a resource change, no network
\* adapter for a network change.  (No task of these three actions changes
\* what the check reads.)
PreconditionViolated(v) ==
    \/ act = "revert_to_snapshot" /\ ~snapshot[v]
    \/ act = "change_vm_resources" /\ power[v] = "poweredOn"
    \/ v \in noNic

\* C6: a VM whose precondition fails has no remote action invoked for it in
\* that batch run and gets a Failed outcome with a precondition error.
C6_PreconditionSkipsInvocation ==
    \A v \in attempted :
        PreconditionViolated(v) =>
            /\ subs[v] = 0
            /\ outcome[v] = PreconditionFailed

\* C6's case: in one change_vm_resources run a powered-on VM was skipped and
\* another VM was reconfigured.
C6_Witness ==
    /\ act = "change_vm_resources"
    /\ \E v \in attempted, w \in attempted :
          /\ power[v] = "poweredOn"
          /\ outcome[v] = PreconditionFailed
          /\ subs[w] = 1
          /\ outcome[w] = Succeeded

\* C7: a VM's outcome is success only if wait_for_task observed its task in
\* 'success'; a task observed in 'error' gives a Failed outcome carrying the
\* task's error message unchanged; every Failed outcome carries an error.
C7_OutcomeMatchesTask ==
    \A v \in VMs :
        /\ outcome[v] = Succeeded => observed[v] = "success"
        /\ (observed[v] = "error" /\ IterationOver(v))
              => outcome[v] = Failed(payload[v])
        /\ outcome[v].state = "Failed" => outcome[v].error # "none"

\* C7's case: in one batch a task ended in 'error' and its VM's outcome
\* carries the message, and another VM's task succeeded.
C7_Witness ==
    \E v \in VMs, w \in VMs :
        /\ observed[v] = "error"
        /\ payload[v] \in ErrMsgs
        /\ outcome[v] = Failed(payload[v])
        /\ observed[w] = "success"
        /\ outcome[w] = Succeeded

\* C8: within a batch run, once a VM's outcome is terminal no later step
\* changes it, and nothing more is submitted for that VM.
C8_TerminalIsFinal ==
    [][\A v \in VMs :
          (InBatch /\ outcome[v] # NoOutcome) =>
              /\ outcome'[v] = outcome[v]
              /\ subs'[v] = subs[v]]_vars

\* C8's case: a VM of the batch has its terminal outcome while the task of a
\* later VM of the same batch is being waited for.
C8_Witness ==
    /\ InWait
    /\ task.state = "error"
    /\ \E v \in attempted : v # vms[i] /\ outcome[v].state = "Failed"

\* C9: a VM whose task is still running does not keep the batch from going
\* on to the next VM: while the k-th VM's task is waited for and more VMs
\* follow, the batch gets past the k-th VM (or ends).  (Weaker than the
\* claim, which wants the next VM submitted while the task still runs.)
C9_RunningTaskDoesNotBlock ==
    \A k \in 1..NumVMs :
        (InWait /\ i = k /\ k < Len(vms)) ~> (~InBatch \/ i > k)

\* C10: a failure of reading the task state is retried before it becomes the
\* VM's Failed outcome: an outcome that reports the lost tracking comes after
\* more than one failed read.
C10_PollFailureRetried ==
    \A v \in VMs :
        outcome[v] = Failed(TransportMsg) => pollThrows[v] > 1

\* C11: a user interrupt during wait_for_task stops the polling of that
\* task, leaves the remote task alone (it is not cancelled: it stays as it
\* was and vCenter may still complete it), and marks the operation
\* Cancelled: the interrupted VM has a Cancelled outcome.
C11_InterruptMarksCancelled ==
    ret = "interrupted" =>
        /\ ~InWait
        /\ task.state \in {"running", "success", "error"}
        /\ outcome[vms[i]].state = "Cancelled"

\* C12: waiting again on a task an earlier wait found terminal ends the same
\* way every time (a return for 'success', the same error message raised for
\* 'error'), does not go through the loop body, and as long as the caller
\* keeps waiting on that task neither the task, nor the manager's session,
\* nor the inventory changes.
C12_RewaitIsIdempotent ==
    /\ [](\A j \in DOMAIN results :
            /\ results[j] = results[1]
            /\ results[j] = WaitResult(task)
            /\ results[j][1] = "raised" <=> task.state = "error"
            /\ results[j][1] = "raised" => results[j][2] = payload[task.vm])
    /\ [][results # <<>> =>
              /\ pc' # "spin"
              /\ results' # <<>> => UNCHANGED <<task, session, remote>>]_vars

\* C12's case: two calls on the same failed task have raised, and a third is
\* at its final check.
C12_Witness ==
    /\ Len(results) = 2
    /\ pc = "check"
    /\ results[2] = <<"raised", payload[task.vm]>>
    /\ payload[task.vm] \in ErrMsgs

\* The loop of power_on_vms / power_off_vms is at a VM that is in the
\* inventory and already in the state the action asks for.
AtVMAlreadyInState ==
    /\ pc = "loop"
    /\ i <= Len(vms)
    /\ exists[vms[i]]
    /\ \/ act = "power_on" /\ power[vms[i]] = "poweredOn"
       \/ act = "power_off" /\ power[vms[i]] = "poweredOff"

\* C13: power_on_vms submits no power-on for a VM it observes poweredOn and
\* power_off_vms no power-off for a VM it observes poweredOff: the iteration
\* submits nothing, reports the VM as a no-op (not as an error) and the loop
\* goes on with the next VM.
C13_NoOpWhenAlreadyInState ==
    [][AtVMAlreadyInState =>
          /\ subs' = subs
          /\ task' = NoTask
          /\ outcome' = [outcome EXCEPT ![vms[i]] = NoOp]
          /\ pc' = "loop"
          /\ i' = i + 1]_vars

\* C13's case: in a power_on_vms run over two VMs the first was found
\* powered on and skipped, and the power-on of the second was submitted.
C13_Witness ==
    /\ act = "power_on"
    /\ Len(vms) = 2
    /\ outcome[vms[1]] = NoOp
    /\ subs[vms[1]] = 0
    /\ power[vms[1]] = "poweredOn"
    /\ subs[vms[2]] = 1
    /\ task.kind = "power_on"

\* C14: where every submitted task ends in 'success' or 'error',
\* wait_for_task, once entered, returns or raises, and a batch method, once
\* in its per-VM loop, comes to its end.
C14_WaitAndBatchTerminate ==
    /\ InWait ~> ~InWait
    /\ InBatch ~> ~InBatch

\* C14's case: wait_for_task saw its task running, went round its loop, and
\* the task of the second VM of the batch has ended since.
C14_Witness ==
    /\ pc = "spin"
    /\ i = 2
    /\ observed[vms[i]] = "running"
    /\ task.state \in {"success", "error"}

\* load_config and then connect have both succeeded.
Connected ==
    /\ vcenter_host = "host"
    /\ username = "user"
    /\ si = "si"
    /\ content = "content"

\* C15: no remote operation before the session is established: a menu is
\* shown, a batch runs and a task exists only after load_config and connect
\* both succeeded; when either failed, run has returned without a screen, a
\* VM list, an action or a task.
C15_NoActionBeforeSession ==
    /\ pc \notin {"load_config", "connect", "exited"} => Connected
    /\ (task # NoTask \/ attempted # {} \/ \E v \in VMs : subs[v] > 0) => Connected
    /\ ~Connected =>
          /\ shown = "none"
          /\ vms = <<>>
          /\ act = "none"
          /\ ret = "none"
          /\ task = NoTask
          /\ attempted = {}

\* C15's case: a task has been submitted, in an established session.
C15_Witness ==
    /\ Connected
    /\ task.state = "running"
    /\ subs[task.vm] = 1

\* C16: the session state is read-only after connecting: once load_config
\* and connect have succeeded, no step of a menu, of a batch method or of
\* wait_for_task changes si, content, vcenter_host or username.
C16_SessionReadOnly ==
    [][Connected => UNCHANGED <<si, content, vcenter_host, username>>]_vars

\* C16's case: in an established session a batch method has run to its end
\* with a task waited for, and the session is as connect left it.
C16_Witness ==
    /\ Connected
    /\ ret = "returned"
    /\ \E v \in VMs : outcome[v] = Succeeded /\ observed[v] = "success"

\* delete_vms has made its Destroy_Task call for VM v (the call returned a
\* task or raised).
DestroyTried(v) == <<v, "destroy">> \in waited \cup threw

\* delete_vms has made its PowerOff call for VM v: it observed v poweredOn.
PowerOffTried(v) == <<v, "power_off">> \in waited \cup threw

\* C17: in delete_vms the destroy call for a VM observed poweredOn is made
\* only when the VM's power-off task was observed in 'success' (the task
\* the program holds at that step); for a VM not observed poweredOn it is
\* made at once; and a VM whose power-off call raised gets no destroy call.
C17_DestroyOnlyAfterPowerOff ==
    /\ [](\A v \in VMs : <<v, "power_off">> \in threw => ~DestroyTried(v))
    /\ [][\A v \in VMs :
            (act = "delete_vms" /\ ~DestroyTried(v) /\ DestroyTried(v)') =>
                IF PowerOffTried(v)
                THEN /\ task.kind = "power_off"
                     /\ task.vm = v
                     /\ task.state = "success"
                     /\ observed[v] = "success"
                     /\ power[v] = "poweredOff"
                ELSE /\ task = NoTask
                     /\ power[v] = "poweredOff"]_vars

\* C17's case: the destroy task of a VM is waited for after its power-off
\* task, while an earlier VM of the list, whose power-off task failed, has
\* its Failed outcome and no destroy call.
C17_Witness ==
    /\ act = "delete_vms"
    /\ task.kind = "destroy"
    /\ <<task.vm, "power_off">> \in waited
    /\ \E w \in attempted :
          /\ w # task.vm
          /\ <<w, "power_off">> \in waited
          /\ outcome[w] = Failed(payload[w])
          /\ ~DestroyTried(w)

\* The batch method returned before its loop: no VM was visited, no call was
\* made, no task exists.
Untouched ==
    /\ ret = "declined"
    /\ ~InBatch
    /\ act = "none"
    /\ attempted = {}
    /\ waited = {}
    /\ threw = {}
    /\ task = NoTask

\* C18: delete_vms enters its loop, and so makes a power-off or destroy
\* call, only on an answer that, stripped, is exactly DELETE, and
\* revert_to_snapshot only on the answer yes in any letter case; both ask
\* whenever they are called; on any other answer the method returns with no
\* VM touched; destroy and revert calls are made by these two methods only.
C18_ConfirmationGates ==
    /\ (pc = "loop" /\ attempted = {}) =>
          /\ act = "delete_vms" => asked.a = "delete_vms"
          /\ act = "revert_to_snapshot" => asked.a = "revert_to_snapshot"
    /\ (asked.a = "delete_vms" /\ asked.answer \notin {Delete, DeletePadded})
          => Untouched
    /\ (asked.a = "revert_to_snapshot" /\ asked.answer \notin {Yes, YesUpper})
          => Untouched
    /\ InBatch => \A p \in waited \cup threw :
          /\ p[2] = "destroy" => act = "delete_vms"
          /\ p[2] = "revert" => act = "revert_to_snapshot"
          /\ (p[2] = "power_off" /\ act # "power_off") => act = "delete_vms"

\* C18's case: delete_vms, answered DELETE with blanks around it, is at the
\* first VM of its loop.
C18_Witness ==
    /\ asked = Question("delete_vms", DeletePadded)
    /\ pc = "loop"
    /\ act = "delete_vms"
    /\ i = 1

\* C19: once delete_vms has deleted a VM, nothing is submitted against that
\* VM later: the actions submenu is never shown over a list that holds a
\* deleted VM (the deletion ends the submenu session, and a new search lists
\* the inventory), and every call that submits a task is made on a VM that
\* is in the inventory.
C19_NoActionOnDeletedVM ==
    /\ [](pc = "actions_menu" => \A v \in Listed : exists[v])
    /\ [][\A v \in VMs : subs'[v] = subs[v] + 1 => exists[v]]_vars

\* C19's case: a VM has been deleted, and a later action of the program has
\* a task running on another VM.
C19_Witness ==
    /\ \E v \in VMs : ~exists[v]
    /\ pc = "wait"
    /\ task.state = "running"
    /\ exists[task.vm]
    /\ act # "delete_vms"

\* The kinds of task submitted for VM v in the current batch.
KindsOf(v) == {p[2] : p \in {q \in waited : q[1] = v}}

\* C20: within one batch run each VM is submitted at most one task of a
\* kind: one task in all, or for delete_vms at most a power-off and a
\* destroy; a call that raised is not made again, and so no failed task is
\* resubmitted.
C20_AtMostOneTaskPerStep ==
    /\ \A v \in VMs :
          /\ subs[v] = Cardinality(KindsOf(v))
          /\ subs[v] <= 2
          /\ subs[v] = 2 => KindsOf(v) = {"power_off", "destroy"}
    /\ \A p \in threw : p \notin waited

\* C20's case: in one delete_vms run the power-off task of a VM failed and
\* the VM has its Failed outcome after that single task, and a later VM got
\* a power-off and then a destroy.
C20_Witness ==
    \E v \in attempted, w \in attempted :
        /\ outcome[v] = Failed(payload[v])
        /\ payload[v] \in ErrMsgs
        /\ subs[v] = 1
        /\ subs[w] = 2

\* A step in which a vmodl.MethodFault reaches run: out of a batch method's
\* loop, or out of a call made from a menu.
MethodFaultReachesRun ==
    \/ InBatch /\ ret' = "raised"
    \/ shown # "vsphere_error" /\ shown' = "vsphere_error"

\* A step that ends run's main loop.
LeavesMainLoop ==
    /\ pc \in {"main_menu", "actions_menu", "loop", "wait", "spin", "check"}
    /\ pc' \notin {"main_menu", "actions_menu", "loop", "wait", "spin", "check"}

\* C21: a MethodFault that escapes a main-menu choice, from inside the
\* actions submenu as well, is caught in run and the main menu is shown
\* again; the main loop ends only on choice '4', on a keyboard interrupt, or
\* on another exception, after which main has returned -1.
C21_MethodFaultKeepsRunning ==
    /\ [][MethodFaultReachesRun => pc' = "main_menu"]_vars
    /\ [][LeavesMainLoop =>
              \/ pc = "main_menu" /\ pc' = "exited" /\ shown' = "disconnecting"
              \/ pc' = "exited" /\ ret' = "interrupted"
              \/ pc' = "crashed" /\ shown' = "error"]_vars

\* C21's case: a MethodFault left delete_vms after a deletion, run caught it,
\* and the program is in the actions submenu again after a new search.
C21_Witness ==
    /\ pc = "actions_menu"
    /\ \E v \in VMs : ~exists[v]
    /\ shown = "vm_table"

====
